---- MODULE Spec2Model ----
(***************************************************************************)
(* Poultry Health Dashboard: the App component's disease-detection        *)
(* pipeline (handleImageChange, fileToBase64, handleDetectDisease), the    *)
(* controls that trigger it, and the webcam (toggleWebcam and its effect). *)
(*                                                                         *)
(* JavaScript runs each handler, and each continuation after an `await`,   *)
(* to completion before anything else runs, so one action of the model is  *)
(* one such run: the code from an entry point (or a resumed await) to the  *)
(* next await (or the end of the handler, catch and finally included).     *)
(* React applies all the set-state calls of one run before the next run.   *)
(***************************************************************************)
EXTENDS Integers, Sequences, FiniteSets, TLC

(***************************************************************************)
(* Bounds of the model.                                                    *)
(***************************************************************************)
\* invocations of handleDetectDisease in one behaviour
MaxInv == 2
\* distinct files the file input can deliver
NumImages == 2
\* longest `outputs` array of a response drawn in SpecPipeline
MaxOutputs == 2
\* calls of toggleWebcam in one behaviour
MaxToggles == 6

(***************************************************************************)
(* Strings.  A JavaScript string is a sequence of one-character strings,   *)
(* so that toLowerCase is computed and not assumed.                        *)
(***************************************************************************)
UpperChars == <<"A","B","C","D","E","H","I","K","N","O","S","T","W">>
LowerChars == <<"a","b","c","d","e","h","i","k","n","o","s","t","w">>

\* String.prototype.toLowerCase on one character of the alphabet used here
LowerChar(c) ==
  IF \E k \in 1..Len(UpperChars) : UpperChars[k] = c
  THEN LowerChars[CHOOSE k \in 1..Len(UpperChars) : UpperChars[k] = c]
  ELSE c

\* String.prototype.toLowerCase
toLowerCase(s) == [k \in 1..Len(s) |-> LowerChar(s[k])]

\* the literal 'chicken' the class is compared with
chicken == <<"c","h","i","c","k","e","n">>

EmptyStr == << >>
Chicken_Cap == <<"C","h","i","c","k","e","n">>
CHICKEN_UP == <<"C","H","I","C","K","E","N">>
Newcastle == <<"N","e","w","c","a","s","t","l","e"," ","D","i","s","e","a","s","e">>
Cocci == <<"C","o","c","c","i">>

(***************************************************************************)
(* JSON values of a response, typed by the JavaScript type the code sees.  *)
(* Every node is a record of fixed shape; `t` is the node's type.          *)
(*   class      : [t, s]     t in undefined|null|string|number|object      *)
(*   confidence : [t, n]     t in undefined|number|string                  *)
(*                           n in units of 10^-5                           *)
(*   entry      : [t, class, confidence]   t in null|object|number         *)
(*   output     : [t, mp, preds, elems]                                    *)
(*       t     in null|object|number     (the element of outputs)          *)
(*       mp    in undefined|null|object|number   (model_predictions)       *)
(*       preds in undefined|null|array|string|object   (predictions)       *)
(*   data       : [t, outputs, elems]                                      *)
(*       t       in null|object|number|array   (the parsed body)           *)
(*       outputs in undefined|null|array|string|object                     *)
(***************************************************************************)
ClsUndefined == [t |-> "undefined", s |-> EmptyStr]
ClsString(s) == [t |-> "string", s |-> s]
ClsNumber == [t |-> "number", s |-> <<"5">>]
ClsZero == [t |-> "number", s |-> <<"0">>]
ClsNull == [t |-> "null", s |-> EmptyStr]
ClsObject == [t |-> "object", s |-> EmptyStr]

ConfUndefined == [t |-> "undefined", n |-> 0]
ConfNumber(n) == [t |-> "number", n |-> n]
ConfString == [t |-> "string", n |-> 0]

EntryNull == [t |-> "null", class |-> ClsUndefined, confidence |-> ConfUndefined]
EntryNumber == [t |-> "number", class |-> ClsUndefined, confidence |-> ConfUndefined]
Entry(c, f) == [t |-> "object", class |-> c, confidence |-> f]

OutNull == [t |-> "null", mp |-> "undefined", preds |-> "undefined", elems |-> << >>]
OutNumber == [t |-> "number", mp |-> "undefined", preds |-> "undefined", elems |-> << >>]
OutNoMP == [t |-> "object", mp |-> "undefined", preds |-> "undefined", elems |-> << >>]
OutMPNull == [t |-> "object", mp |-> "null", preds |-> "undefined", elems |-> << >>]
OutMPNumber == [t |-> "object", mp |-> "number", preds |-> "undefined", elems |-> << >>]
OutNoPreds == [t |-> "object", mp |-> "object", preds |-> "undefined", elems |-> << >>]
OutPredsString == [t |-> "object", mp |-> "object", preds |-> "string", elems |-> << >>]
OutPredsObject == [t |-> "object", mp |-> "object", preds |-> "object", elems |-> << >>]
OutPreds(es) == [t |-> "object", mp |-> "object", preds |-> "array", elems |-> es]

DataNull == [t |-> "null", outputs |-> "undefined", elems |-> << >>]
DataNumber == [t |-> "number", outputs |-> "undefined", elems |-> << >>]
DataNoOutputs == [t |-> "object", outputs |-> "undefined", elems |-> << >>]
DataOutputsNull == [t |-> "object", outputs |-> "null", elems |-> << >>]
DataOutputsString == [t |-> "object", outputs |-> "string", elems |-> << >>]
DataOutputsObject == [t |-> "object", outputs |-> "object", elems |-> << >>]
DataOutputs(os) == [t |-> "object", outputs |-> "array", elems |-> os]

\* JavaScript truthiness of a class value (the left operand of && at line 216)
ClassTruthy(c) ==
  CASE c.t = "string" -> c.s # EmptyStr
    [] c.t = "number" -> c.s # <<"0">>
    [] c.t = "object" -> TRUE
    [] OTHER -> FALSE

\* truthiness of output.model_predictions / .predictions / data.outputs by type
\* (a string here is a non-empty one, a number a non-zero one)
TypeTruthy(ty) == ty \in {"object", "array", "string", "number"}

(***************************************************************************)
(* Texts: a response body.  fmt is how the text is laid out:               *)
(*   "empty"    the empty string          "garbage"  text that is no JSON  *)
(*   "compact"  JSON as the server sent it                                 *)
(*   "pretty"   JSON as JSON.stringify(v, null, 2) lays it out             *)
(***************************************************************************)
EmptyText == [fmt |-> "empty", data |-> DataNull]
GarbageText == [fmt |-> "garbage", data |-> DataNull]
CompactText(d) == [fmt |-> "compact", data |-> d]
PrettyText(d) == [fmt |-> "pretty", data |-> d]

\* JSON.parse / response.json(): TRUE when the text is JSON
Parses(text) == text.fmt \in {"compact", "pretty"}
\* JSON.parse(text) for a text that parses
JSONparse(text) == text.data
\* JSON.stringify(value, null, 2)
JSONstringify2(d) == PrettyText(d)

(***************************************************************************)
(* The messages the component shows.                                       *)
(*   errorMessage    : [k, status, text]                                   *)
(*   detectionResult : [k, class, confidence]                              *)
(* k = "empty" is the empty string ''.                                     *)
(***************************************************************************)
ErrEmpty == [k |-> "empty", status |-> 0, text |-> EmptyText]
\* 'Please select an image first.'
ErrSelect == [k |-> "select", status |-> 0, text |-> EmptyText]
\* `Failed to detect disease: ${error.message}.` for each error the try block can see
\* reader.onerror rejects with a ProgressEvent, whose message is undefined
ErrRead == [k |-> "failed:undefined", status |-> 0, text |-> EmptyText]
\* fetch rejects with a TypeError (network failure)
ErrFetch == [k |-> "failed:fetch", status |-> 0, text |-> EmptyText]
\* response.json() rejects with a SyntaxError
ErrParse == [k |-> "failed:syntax", status |-> 0, text |-> EmptyText]
\* a TypeError thrown while walking the parsed response
ErrType == [k |-> "failed:typeerror", status |-> 0, text |-> EmptyText]
\* the errors thrown on a response that is not ok
Err401 == [k |-> "failed:401 Unauthorized", status |-> 401, text |-> EmptyText]
Err403 == [k |-> "failed:403 Forbidden", status |-> 403, text |-> EmptyText]
Err422 == [k |-> "failed:422 Unprocessable Entity", status |-> 422, text |-> EmptyText]
ErrStatus(status, errorText) == [k |-> "failed:status", status |-> status, text |-> errorText]

ResEmpty == [k |-> "empty", class |-> EmptyStr, confidence |-> 0]
\* 'No clear disease classification prediction found. ...'
ResNoPrediction == [k |-> "nopred", class |-> EmptyStr, confidence |-> 0]
\* `Detected: ${predictedClass} (Confidence: ${confidence}%)`
ResDetected(predictedClass, confidence) ==
  [k |-> "detected", class |-> predictedClass, confidence |-> confidence]

\* (confidence * 100).toFixed(2): n is the confidence in units of 10^-5, the
\* result the percentage in hundredths, rounded half up
toFixed2(n) == (n + 5) \div 10

(***************************************************************************)
(* The search of the parsed response (lines 211-225 of app.js).            *)
(* The result is [k, class, confidence]:                                   *)
(*   "found"  the loop reached setDetectionResult and break                *)
(*   "none"   the loop ended with foundPrediction false                    *)
(*   "throw"  a property read or call threw a TypeError                    *)
(***************************************************************************)
WalkFound(c, n) == [k |-> "found", class |-> c, confidence |-> n]
WalkNone == [k |-> "none", class |-> EmptyStr, confidence |-> 0]
WalkThrow == [k |-> "throw", class |-> EmptyStr, confidence |-> 0]

\* line 214: the condition guarding the use of predictions[0]
HasPredictions(output) ==
  /\ TypeTruthy(output.mp)
  /\ TypeTruthy(output.preds)
  /\ output.preds = "array"
  /\ Len(output.elems) > 0

\* lines 215-222: what one element with predictions does to the loop:
\* "accept", "skip" or "throw"
TopPrediction(output) ==
  LET topPrediction == output.elems[1] IN
  IF topPrediction.t = "null" THEN "throw"
  ELSE IF ~ClassTruthy(topPrediction.class) THEN "skip"
  ELSE IF topPrediction.confidence.t # "number" THEN "skip"
  ELSE IF topPrediction.class.t # "string" THEN "throw"
  ELSE IF toLowerCase(topPrediction.class.s) # chicken THEN "accept"
  ELSE "skip"

\* lines 213-224: the for...of loop from element k on
RECURSIVE WalkFrom(_, _)
WalkFrom(outputs, k) ==
  IF k > Len(outputs) THEN WalkNone
  ELSE LET output == outputs[k] IN
    IF output.t = "null" THEN WalkThrow
    ELSE IF ~HasPredictions(output) THEN WalkFrom(outputs, k + 1)
    ELSE LET step == TopPrediction(output) IN
      CASE step = "throw" -> WalkThrow
        [] step = "accept" ->
             WalkFound(output.elems[1].class.s, output.elems[1].confidence.n)
        [] OTHER -> WalkFrom(outputs, k + 1)

\* lines 211-225: the whole search of `data`
Walk(data) ==
  IF data.t = "null" THEN WalkThrow
  ELSE IF TypeTruthy(data.outputs) /\ data.outputs = "array"
       THEN WalkFrom(data.elems, 1)
       ELSE WalkNone

(***************************************************************************)
(* State.                                                                  *)
(***************************************************************************)
VARIABLES
  selectedImage,    \* useState(null): NoFile or the selected file
  imagePreviewUrl,  \* useState(''): NoFile for '', else the file the URL shows
  detectionResult,  \* useState('')
  rawApiResponse,   \* useState(''): a text
  isLoading,        \* useState(false)
  errorMessage,     \* useState('')
  inv,              \* the invocations of handleDetectDisease: where each one
                    \* stands and its local variables
  reads,            \* per invocation, the FileReader reads it started
  requests          \* per invocation, the bodies of the HTTP POSTs it issued

\* the detection pipeline's part of the state
detectVars == <<selectedImage, imagePreviewUrl, detectionResult, rawApiResponse,
                isLoading, errorMessage, inv, reads, requests>>

VARIABLES
  webcamActive,     \* useState(false)
  webcamError,      \* useState('')
  srcObject,        \* videoRef.current.srcObject: NoStream or a stream
  liveStreams,      \* the streams handed out whose tracks were not stopped
  mediaRequests,    \* getUserMedia promises not yet settled
  streams,          \* streams handed out by getUserMedia so far
  toggles           \* calls of toggleWebcam so far

\* the webcam's part of the state
webcamVars == <<webcamActive, webcamError, srcObject, liveStreams,
                mediaRequests, streams, toggles>>

vars == <<selectedImage, imagePreviewUrl, detectionResult, rawApiResponse,
          isLoading, errorMessage, inv, reads, requests,
          webcamActive, webcamError, srcObject, liveStreams,
          mediaRequests, streams, toggles>>

\* null, the srcObject of a video element with no stream
NoStream == 0
\* '' and the message of line 69
NoWebcamError == ""
WebcamAccessError == "Cannot access webcam."

\* the webcam after the first render and its effect (lines 16-18, 57-88)
InitWebcam ==
  /\ webcamActive = FALSE
  /\ webcamError = NoWebcamError
  /\ srcObject = NoStream
  /\ liveStreams = {}
  /\ mediaRequests = 0
  /\ streams = 0
  /\ toggles = 0

\* null, the initial selectedImage, and '' for the preview URL
NoFile == 0
Files == 1..NumImages
InvIds == 1..MaxInv

\* reader.result.split(',')[1]: the base64 payload of file f's data URL
Base64Of(f) == <<"base64", f>>
NoBase64 == <<"base64", NoFile>>

\* the DetectionRequest of lines 181-189, as serialized at line 195
RequestBody(base64Image) ==
  [api_key |-> "ROBOTFLOW_API_KEY", type |-> "base64", value |-> base64Image]

NoResponse == [status |-> 0, body |-> EmptyText]

\* pc: "idle"     not yet invoked
\*     "reading"  awaiting fileToBase64 (line 180)
\*     "fetching" awaiting fetch (line 192)
\*     "text"     awaiting response.text() (line 199)
\*     "json"     awaiting response.json() (line 207)
\*     "done"     returned
IdleInv == [pc |-> "idle", file |-> NoFile, base64Image |-> NoBase64,
            response |-> NoResponse]

\* a returned invocation: its local variables are gone
DoneInv == [pc |-> "done", file |-> NoFile, base64Image |-> NoBase64,
            response |-> NoResponse]

\* Response.ok
ok(status) == status \in 200..299

Init ==
  /\ selectedImage = NoFile
  /\ imagePreviewUrl = NoFile
  /\ detectionResult = ResEmpty
  /\ rawApiResponse = EmptyText
  /\ isLoading = FALSE
  /\ errorMessage = ErrEmpty
  /\ inv = [i \in InvIds |-> IdleInv]
  /\ reads = [i \in InvIds |-> 0]
  /\ requests = [i \in InvIds |-> << >>]
  /\ InitWebcam

(***************************************************************************)
(* handleImageChange (lines 132-147): file is event.target.files[0], or    *)
(* NoFile when the selection was emptied.                                  *)
(***************************************************************************)
\* handleImageChange whose else branch (no file) resets the selection only
handleImageChange_KeepOutcome(file) ==
  /\ selectedImage' = file
  /\ imagePreviewUrl' = file
  /\ IF file # NoFile
     THEN /\ detectionResult' = ResEmpty
          /\ rawApiResponse' = EmptyText
          /\ errorMessage' = ErrEmpty
     ELSE UNCHANGED <<detectionResult, rawApiResponse, errorMessage>>
  /\ UNCHANGED <<isLoading, inv, reads, requests>>
  /\ UNCHANGED webcamVars

handleImageChange(file) ==
  /\ selectedImage' = file
  /\ imagePreviewUrl' = file
  /\ detectionResult' = ResEmpty
  /\ rawApiResponse' = EmptyText
  /\ errorMessage' = ErrEmpty
  /\ UNCHANGED <<isLoading, inv, reads, requests>>
  /\ UNCHANGED webcamVars

(***************************************************************************)
(* handleDetectDisease (lines 168-237).                                    *)
(***************************************************************************)
\* CatchFinally without the catch block: the finally block alone runs and
\* the error leaves the handler
CatchFinally_Uncaught(i, error) ==
  /\ UNCHANGED errorMessage
  /\ isLoading' = FALSE
  /\ inv' = [inv EXCEPT ![i] = DoneInv]

\* CatchFinally without the finally block: the busy flag is left set
CatchFinally_NoReset(i, error) ==
  /\ errorMessage' = error
  /\ UNCHANGED isLoading
  /\ inv' = [inv EXCEPT ![i] = DoneInv]

\* the catch and finally blocks (lines 231-236) for a thrown error
CatchFinally(i, error) ==
  /\ errorMessage' = error
  /\ isLoading' = FALSE
  /\ inv' = [inv EXCEPT ![i] = DoneInv]

\* handleDetectDisease without the `return` of line 171: the message is
\* set and the handler goes on to read the (null) file
handleDetectDisease_NoReturn(i) ==
  /\ inv[i].pc = "idle"
  /\ \A j \in InvIds : j < i => inv[j].pc # "idle"
  /\ isLoading' = TRUE
  /\ errorMessage' = ErrEmpty
  /\ detectionResult' = ResEmpty
  /\ rawApiResponse' = EmptyText
  /\ reads' = [reads EXCEPT ![i] = @ + 1]
  /\ inv' = [inv EXCEPT ![i].pc = "reading", ![i].file = selectedImage]
  /\ UNCHANGED <<selectedImage, imagePreviewUrl, requests>>
  /\ UNCHANGED webcamVars

\* lines 168-180: the call, up to the first await
handleDetectDisease(i) ==
  /\ inv[i].pc = "idle"
  /\ \A j \in InvIds : j < i => inv[j].pc # "idle"
  /\ IF selectedImage = NoFile
     THEN /\ errorMessage' = ErrSelect
          /\ inv' = [inv EXCEPT ![i] = DoneInv]
          /\ UNCHANGED <<selectedImage, imagePreviewUrl, detectionResult,
                         rawApiResponse, isLoading, reads, requests>>
     ELSE /\ isLoading' = TRUE
          /\ errorMessage' = ErrEmpty
          /\ detectionResult' = ResEmpty
          /\ rawApiResponse' = EmptyText
          /\ reads' = [reads EXCEPT ![i] = @ + 1]
          /\ inv' = [inv EXCEPT ![i].pc = "reading", ![i].file = selectedImage]
          /\ UNCHANGED <<selectedImage, imagePreviewUrl, requests>>
  /\ UNCHANGED webcamVars

\* reader.onload (line 159), then lines 180-196: the request is built and sent
ReadLoads(i) ==
  /\ inv[i].pc = "reading"
  /\ LET base64Image == Base64Of(inv[i].file) IN
     /\ requests' = [requests EXCEPT ![i] = Append(@, RequestBody(base64Image))]
     /\ inv' = [inv EXCEPT ![i].pc = "fetching", ![i].base64Image = base64Image]
  /\ UNCHANGED <<selectedImage, imagePreviewUrl, detectionResult, rawApiResponse,
                 isLoading, errorMessage, reads>>
  /\ UNCHANGED webcamVars

\* reader.onerror (line 160): the await at line 180 throws
ReadErrors(i) ==
  /\ inv[i].pc = "reading"
  /\ CatchFinally(i, ErrRead)
  /\ UNCHANGED <<selectedImage, imagePreviewUrl, detectionResult, rawApiResponse,
                 reads, requests>>
  /\ UNCHANGED webcamVars

\* fetch resolves (line 192) with a response; line 198 picks the body read
FetchResolves(i, status, body) ==
  /\ inv[i].pc = "fetching"
  /\ inv' = [inv EXCEPT ![i].pc = IF ok(status) THEN "json" ELSE "text",
                        ![i].response = [status |-> status, body |-> body]]
  /\ UNCHANGED <<selectedImage, imagePreviewUrl, detectionResult, rawApiResponse,
                 isLoading, errorMessage, reads, requests>>
  /\ UNCHANGED webcamVars

\* FetchRejects with one retry: the first rejection sends the request again
FetchRejects_Retry(i) ==
  /\ inv[i].pc = "fetching"
  /\ IF Len(requests[i]) < 2
     THEN /\ requests' = [requests EXCEPT
                            ![i] = Append(@, RequestBody(inv[i].base64Image))]
          /\ UNCHANGED <<errorMessage, isLoading, inv>>
     ELSE /\ CatchFinally(i, ErrFetch)
          /\ UNCHANGED requests
  /\ UNCHANGED <<selectedImage, imagePreviewUrl, detectionResult, rawApiResponse,
                 reads>>
  /\ UNCHANGED webcamVars

\* fetch rejects (line 192): a transport failure
FetchRejects(i) ==
  /\ inv[i].pc = "fetching"
  /\ CatchFinally(i, ErrFetch)
  /\ UNCHANGED <<selectedImage, imagePreviewUrl, detectionResult, rawApiResponse,
                 reads, requests>>
  /\ UNCHANGED webcamVars

\* ErrorBodyCapture without the JSON.parse attempt: the raw text is kept
ErrorBodyCapture_RawOnly(errorText) == errorText

\* line 200: the diagnostic body of a response that is not ok
ErrorBodyCapture(errorText) ==
  IF Parses(errorText) THEN JSONstringify2(JSONparse(errorText)) ELSE errorText

\* StatusError with the 403 branch lost: 403 falls through to line 204
StatusError_No403(status, errorText) ==
  CASE status = 401 -> Err401
    [] status = 422 -> Err422
    [] OTHER -> ErrStatus(status, errorText)

\* lines 201-204: the error thrown for a response that is not ok
StatusError(status, errorText) ==
  CASE status = 401 -> Err401
    [] status = 403 -> Err403
    [] status = 422 -> Err422
    [] OTHER -> ErrStatus(status, errorText)

\* response.text() resolves (line 199), then lines 200-204 and the catch
TextResolves(i) ==
  /\ inv[i].pc = "text"
  /\ LET errorText == inv[i].response.body IN
     /\ rawApiResponse' = ErrorBodyCapture(errorText)
     /\ CatchFinally(i, StatusError(inv[i].response.status, errorText))
  /\ UNCHANGED <<selectedImage, imagePreviewUrl, detectionResult, reads, requests>>
  /\ UNCHANGED webcamVars

\* lines 218-236 once `data` is parsed: the message the search leaves
SearchOutcome(i, data) ==
  LET found == Walk(data) IN
  CASE found.k = "found" ->
         /\ detectionResult' = ResDetected(found.class, toFixed2(found.confidence))
         /\ UNCHANGED errorMessage
    [] found.k = "none" ->
         /\ detectionResult' = ResNoPrediction
         /\ UNCHANGED errorMessage
    [] OTHER ->
         /\ errorMessage' = ErrType
         /\ UNCHANGED detectionResult

\* response.json() resolves (line 207), then lines 208-236
JsonResolves(i) ==
  /\ inv[i].pc = "json"
  /\ Parses(inv[i].response.body)
  /\ LET data == JSONparse(inv[i].response.body) IN
     /\ rawApiResponse' = JSONstringify2(data)
     /\ SearchOutcome(i, data)
  /\ isLoading' = FALSE
  /\ inv' = [inv EXCEPT ![i] = DoneInv]
  /\ UNCHANGED <<selectedImage, imagePreviewUrl, reads, requests>>
  /\ UNCHANGED webcamVars

\* response.json() rejects (line 207): the body is no JSON
JsonRejects(i) ==
  /\ inv[i].pc = "json"
  /\ ~Parses(inv[i].response.body)
  /\ CatchFinally(i, ErrParse)
  /\ UNCHANGED <<selectedImage, imagePreviewUrl, detectionResult, rawApiResponse,
                 reads, requests>>
  /\ UNCHANGED webcamVars

(***************************************************************************)
(* The webcam (lines 57-94).  The video element is always rendered, so     *)
(* videoRef.current is set for as long as the component is mounted.  A     *)
(* change of webcamActive re-renders the component and re-runs the effect  *)
(* of lines 57-88: first the cleanup the previous run returned, then the   *)
(* body; the state change, the render and the effect are one run.          *)
(***************************************************************************)
\* srcObject.getTracks().forEach(track => track.stop()), when there is a
\* srcObject (lines 74-76 and 83-85): the live streams afterwards
StopTracks(live, src) == IF src # NoStream THEN live \ {src} ELSE live

\* the effect re-run for a new value of webcamActive: the cleanup of lines
\* 82-87, then the body of lines 58-79; pending is the number of
\* getUserMedia requests outstanding when it runs
WebcamEffect(active, pending) ==
  /\ liveStreams' = StopTracks(liveStreams, srcObject)
  /\ IF active
     THEN /\ mediaRequests' = pending + 1
          /\ UNCHANGED srcObject
     ELSE /\ mediaRequests' = pending
          /\ srcObject' = NoStream

\* toggleWebcam (lines 91-94) and the effect run it causes
toggleWebcam ==
  /\ toggles < MaxToggles
  /\ toggles' = toggles + 1
  /\ webcamActive' = ~webcamActive
  /\ webcamError' = NoWebcamError
  /\ WebcamEffect(~webcamActive, mediaRequests)
  /\ UNCHANGED <<streams, detectVars>>

\* getUserMedia resolves with a new live stream (lines 61-66): it is
\* attached to the video element, whatever webcamActive is by now
MediaResolves ==
  /\ mediaRequests > 0
  /\ mediaRequests' = mediaRequests - 1
  /\ streams' = streams + 1
  /\ srcObject' = streams + 1
  /\ liveStreams' = liveStreams \cup {streams + 1}
  /\ UNCHANGED <<webcamActive, webcamError, toggles, detectVars>>

\* getUserMedia rejects (lines 67-71); the effect re-runs only if
\* setWebcamActive(false) changes webcamActive
MediaRejects ==
  /\ mediaRequests > 0
  /\ webcamError' = WebcamAccessError
  /\ webcamActive' = FALSE
  /\ IF webcamActive
     THEN WebcamEffect(FALSE, mediaRequests - 1)
     ELSE /\ mediaRequests' = mediaRequests - 1
          /\ UNCHANGED <<srcObject, liveStreams>>
  /\ UNCHANGED <<streams, toggles, detectVars>>

(***************************************************************************)
(* What the environment can deliver.                                       *)
(***************************************************************************)
\* event.target.files[0] of a change event
FileChoices == Files \cup {NoFile}

\* HTTP statuses: one that is ok, the three the code names, one it does not
Statuses == {200, 401, 403, 422, 500}

\* a response with one accepted prediction
DataDetected ==
  DataOutputs(<<OutPreds(<<Entry(ClsString(Newcastle), ConfNumber(87340))>>)>>)
\* a response whose only leading prediction is a chicken
DataChicken ==
  DataOutputs(<<OutPreds(<<Entry(ClsString(Chicken_Cap), ConfNumber(99000))>>)>>)
\* a response whose outputs holds a null
DataNullOutput == DataOutputs(<<OutNull>>)

\* the bodies drawn in Spec, SpecUI and SpecBusy
Bodies ==
  {GarbageText, CompactText(DataDetected), CompactText(DataChicken),
   CompactText(DataNullOutput)}

\* the responses drawn where invocations follow one another
Responses == {[status |-> st, body |-> b] : st \in Statuses, b \in Bodies}

\* the responses drawn where invocations may overlap: one of each outcome
OverlapResponses ==
  {[status |-> 200, body |-> CompactText(DataDetected)],
   [status |-> 200, body |-> CompactText(DataChicken)],
   [status |-> 200, body |-> CompactText(DataNullOutput)],
   [status |-> 200, body |-> GarbageText],
   [status |-> 401, body |-> CompactText(DataDetected)],
   [status |-> 500, body |-> GarbageText]}

(***************************************************************************)
(* Spec: the handlers as functions.  handleDetectDisease may be called in  *)
(* any state (the busy guard of the button is not part of the handler).    *)
(***************************************************************************)
Next ==
  \/ \E file \in FileChoices : handleImageChange(file)
  \/ \E i \in InvIds : handleDetectDisease(i)
  \/ \E i \in InvIds : ReadLoads(i)
  \/ \E i \in InvIds : ReadErrors(i)
  \/ \E i \in InvIds :
       /\ inv[i].pc = "fetching"
       /\ \E r \in OverlapResponses : FetchResolves(i, r.status, r.body)
  \/ \E i \in InvIds : FetchRejects(i)
  \/ \E i \in InvIds : TextResolves(i)
  \/ \E i \in InvIds : JsonResolves(i)
  \/ \E i \in InvIds : JsonRejects(i)

Spec == Init /\ [][Next]_vars

(***************************************************************************)
(* SpecUI: the component as rendered.  The detect button is disabled while *)
(* isLoading or while no image is selected (part_000 lines 365-367).       *)
(***************************************************************************)
DetectButtonDisabled == isLoading \/ selectedImage = NoFile

ClickDetect(i) == ~DetectButtonDisabled /\ handleDetectDisease(i)

NextUI ==
  \/ \E file \in FileChoices : handleImageChange(file)
  \/ \E i \in InvIds : ClickDetect(i)
  \/ \E i \in InvIds : ReadLoads(i)
  \/ \E i \in InvIds : ReadErrors(i)
  \/ \E i \in InvIds :
       /\ inv[i].pc = "fetching"
       /\ \E r \in Responses : FetchResolves(i, r.status, r.body)
  \/ \E i \in InvIds : FetchRejects(i)
  \/ \E i \in InvIds : TextResolves(i)
  \/ \E i \in InvIds : JsonResolves(i)
  \/ \E i \in InvIds : JsonRejects(i)

SpecUI == Init /\ [][NextUI]_vars

\* a pending read or request settles and the continuation awaiting it runs:
\* the FileReader fires onload or onerror, fetch resolves or rejects, the
\* body read resolves or rejects
Settles ==
  \E i \in InvIds :
    \/ ReadLoads(i)
    \/ ReadErrors(i)
    \/ /\ inv[i].pc = "fetching"
       /\ \E r \in Responses : FetchResolves(i, r.status, r.body)
    \/ FetchRejects(i)
    \/ TextResolves(i)
    \/ JsonResolves(i)
    \/ JsonRejects(i)

\* SpecUILive: SpecUI where every read and request started does complete or
\* fail (the code sets no timeout; the event loop runs a continuation once
\* its promise has settled)
SpecUILive == SpecUI /\ WF_vars(Settles)

(***************************************************************************)
(* SpecBusy: a caller that honours the busy flag alone.  It never calls    *)
(* the handler while isLoading, so no two invocations overlap, but it may  *)
(* call it with no image selected (the case lines 169-172 handle).         *)
(***************************************************************************)
BusyGuardedDetect(i) == ~isLoading /\ handleDetectDisease(i)

NextBusy ==
  \/ \E file \in FileChoices : handleImageChange(file)
  \/ \E i \in InvIds : BusyGuardedDetect(i)
  \/ \E i \in InvIds : ReadLoads(i)
  \/ \E i \in InvIds : ReadErrors(i)
  \/ \E i \in InvIds :
       /\ inv[i].pc = "fetching"
       /\ \E r \in Responses : FetchResolves(i, r.status, r.body)
  \/ \E i \in InvIds : FetchRejects(i)
  \/ \E i \in InvIds : TextResolves(i)
  \/ \E i \in InvIds : JsonResolves(i)
  \/ \E i \in InvIds : JsonRejects(i)

SpecBusy == Init /\ [][NextBusy]_vars

(***************************************************************************)
(* SpecPipeline: one invocation from the button, run on every response of  *)
(* a family that covers each shape the search distinguishes.               *)
(***************************************************************************)
\* class and confidence values of a prediction entry
Classes ==
  {ClsUndefined, ClsNull, ClsNumber, ClsZero, ClsObject, ClsString(EmptyStr),
   ClsString(chicken), ClsString(Chicken_Cap), ClsString(CHICKEN_UP),
   ClsString(Newcastle), ClsString(Cocci)}
Confidences == {ConfUndefined, ConfString, ConfNumber(87340)}

Entries ==
  {EntryNull, EntryNumber, Entry(ClsString(Cocci), ConfNumber(99000))}
    \cup {Entry(c, f) : c \in Classes, f \in Confidences}

\* predictions arrays of two entries: only the first may count
PredictionPairs ==
  {<<Entry(ClsString(Chicken_Cap), ConfNumber(87340)),
     Entry(ClsString(Cocci), ConfNumber(99000))>>,
   <<Entry(ClsString(Newcastle), ConfNumber(87340)),
     Entry(ClsString(Cocci), ConfNumber(99000))>>}

OutputKinds ==
  {OutNull, OutNumber, OutNoMP, OutMPNull, OutMPNumber, OutNoPreds,
   OutPredsString, OutPredsObject, OutPreds(<< >>)}
    \cup {OutPreds(<<e>>) : e \in Entries}
    \cup {OutPreds(es) : es \in PredictionPairs}

\* the sequences over S of length 0..n
SeqsUpTo(S, n) == UNION {[1..m -> S] : m \in 0..n}

DataKinds ==
  {DataNull, DataNumber, DataNoOutputs, DataOutputsNull, DataOutputsString,
   DataOutputsObject}
    \cup {DataOutputs(os) : os \in SeqsUpTo(OutputKinds, MaxOutputs)}

\* the responses of the family: every body under 200, a few under an error status
PipelineResponses ==
  {[status |-> 200, body |-> CompactText(d)] : d \in DataKinds}
    \cup {[status |-> 200, body |-> b] : b \in {GarbageText, EmptyText}}
    \cup {[status |-> st, body |-> b] : st \in Statuses \ {200}, b \in Bodies}

InitPipeline ==
  /\ selectedImage \in Files
  /\ imagePreviewUrl = selectedImage
  /\ detectionResult = ResEmpty
  /\ rawApiResponse = EmptyText
  /\ isLoading = FALSE
  /\ errorMessage = ErrEmpty
  /\ inv = [i \in InvIds |-> IdleInv]
  /\ reads = [i \in InvIds |-> 0]
  /\ requests = [i \in InvIds |-> << >>]
  /\ InitWebcam

NextPipeline ==
  \/ ClickDetect(1)
  \/ ReadLoads(1)
  \/ ReadErrors(1)
  \/ /\ inv[1].pc = "fetching"
     /\ \E r \in PipelineResponses : FetchResolves(1, r.status, r.body)
  \/ FetchRejects(1)
  \/ TextResolves(1)
  \/ JsonResolves(1)
  \/ JsonRejects(1)

SpecPipeline == InitPipeline /\ [][NextPipeline]_vars

(***************************************************************************)
(* SpecWebcam: the webcam button and the getUserMedia requests it starts.  *)
(***************************************************************************)
NextWebcam ==
  \/ toggleWebcam
  \/ MediaResolves
  \/ MediaRejects

SpecWebcam == Init /\ [][NextWebcam]_vars

(***************************************************************************)
(* Properties.                                                             *)
(***************************************************************************)
Pending == {"reading", "fetching", "text", "json"}
\* invocation i takes its first run in this step
Starts(i) == inv[i].pc = "idle" /\ inv'[i].pc # "idle"
\* invocation i, which was awaiting something, returns in this step
Returns(i) == inv[i].pc \in Pending /\ inv'[i].pc = "done"
\* the error messages of a RequestFailed outcome
FailedKinds ==
  {"failed:undefined", "failed:fetch", "failed:syntax", "failed:typeerror",
   "failed:401 Unauthorized", "failed:403 Forbidden",
   "failed:422 Unprocessable Entity", "failed:status"}
IsRequestFailed(e) == e.k \in FailedKinds

\* C1: an invocation of handleDetectDisease while no image is selected
\* shows 'Please select an image first.' and returns in the same run; it
\* starts no file read and issues no HTTP request, then or later.
C1_NoImageSelected ==
  /\ [][\A i \in InvIds :
          /\ (Starts(i) /\ selectedImage = NoFile) =>
               /\ errorMessage' = ErrSelect
               /\ inv'[i].pc = "done"
               /\ reads' = reads
               /\ requests' = requests
          /\ inv[i].pc = "done" =>
               /\ inv'[i].pc = "done"
               /\ reads'[i] = reads[i]
               /\ requests'[i] = requests[i]]_vars
  /\ [](\A i \in InvIds : reads[i] = 0 => requests[i] = << >>)

\* a no-image invocation has run and its message is shown
C1_Witness ==
  \E i \in InvIds :
    /\ inv[i].pc = "done"
    /\ reads[i] = 0
    /\ requests[i] = << >>
    /\ selectedImage = NoFile
    /\ errorMessage = ErrSelect

\* the step in which invocation i returns is one of the failures the try
\* block can meet
FailsNow(i) ==
  /\ Returns(i)
  /\ \/ inv[i].pc \in {"reading", "fetching", "text"}
     \/ inv[i].pc = "json" /\ inv[i].response.body.fmt \notin {"compact", "pretty"}
     \/ inv[i].pc = "json" /\ inv[i].response.body.fmt \in {"compact", "pretty"}
          /\ Walk(inv[i].response.body.data).k = "throw"

\* C2: with the button's guard, every invocation started with an image
\* returns with exactly one message shown, and a failure at any step (file
\* read, fetch, status, body parse, walking the response) is shown as a
\* 'Failed to detect disease' error with no detection result.
C2_FailureCaught ==
  [][\A i \in InvIds :
       /\ Returns(i) =>
            (errorMessage' # ErrEmpty) # (detectionResult' # ResEmpty)
       /\ FailsNow(i) =>
            /\ IsRequestFailed(errorMessage')
            /\ detectionResult' = ResEmpty]_vars

\* an invocation returned after an exception while walking the response
C2_Witness ==
  /\ \E i \in InvIds : inv[i].pc = "done"
  /\ rawApiResponse = PrettyText(DataNullOutput)
  /\ errorMessage = ErrType
  /\ detectionResult = ResEmpty

\* the first entry of an output's predictions list, when there is one
HasFirstEntry(output) ==
  /\ output.t = "object"
  /\ output.mp = "object"
  /\ output.preds = "array"
  /\ Len(output.elems) >= 1
\* that entry carries a string class and a numeric confidence
WellFormedFirst(output) ==
  /\ HasFirstEntry(output)
  /\ output.elems[1].t = "object"
  /\ output.elems[1].class.t = "string"
  /\ output.elems[1].confidence.t = "number"
\* that entry is a chicken in some letter case
ChickenFirst(output) ==
  /\ WellFormedFirst(output)
  /\ toLowerCase(output.elems[1].class.s) = chicken
\* a qualifying first entry: any string class but a chicken, numeric confidence
QualifyingFirst(output) == WellFormedFirst(output) /\ ~ChickenFirst(output)

\* the outputs sequence of a parsed body (empty when absent or no sequence)
OutputsOf(data) ==
  IF data.t = "object" /\ data.outputs = "array" THEN data.elems ELSE << >>

\* invocation i returns in this step on a success-status response whose
\* body is JSON
ReturnsParsed(i) ==
  /\ Returns(i)
  /\ inv[i].pc = "json"
  /\ inv[i].response.body.fmt \in {"compact", "pretty"}

\* C3: on a success-status response the result shown is the first element
\* of outputs whose predictions[0] has a string class (any string), a
\* numeric confidence and a class that is not a chicken in any letter case.
C3_FirstMatch ==
  [][\A i \in InvIds :
       ReturnsParsed(i) =>
         LET outputs == OutputsOf(inv[i].response.body.data)
             hits == {k \in 1..Len(outputs) : QualifyingFirst(outputs[k])} IN
         hits # {} =>
           LET first == CHOOSE k \in hits : \A m \in hits : k <= m
               entry == outputs[first].elems[1] IN
           /\ detectionResult'.k = "detected"
           /\ detectionResult'.class = entry.class.s
           /\ detectionResult'.confidence = toFixed2(entry.confidence.n)]_vars

\* C4: a success-status response whose body is JSON and holds no qualifying
\* first entry ends as 'No clear disease classification prediction found',
\* never as an error.
C4_NoPredictionFound ==
  [][\A i \in InvIds :
       ReturnsParsed(i) =>
         LET outputs == OutputsOf(inv[i].response.body.data) IN
         (\A k \in 1..Len(outputs) : ~QualifyingFirst(outputs[k])) =>
           /\ detectionResult' = ResNoPrediction
           /\ errorMessage' = ErrEmpty]_vars

\* C5: a success-status response with a chicken first entry, in which every
\* well-formed first entry is a chicken, ends as 'No clear disease
\* classification prediction found'.
C5_ChickenOnly ==
  [][\A i \in InvIds :
       ReturnsParsed(i) =>
         LET outputs == OutputsOf(inv[i].response.body.data) IN
         (/\ \E k \in 1..Len(outputs) : ChickenFirst(outputs[k])
          /\ \A k \in 1..Len(outputs) :
               WellFormedFirst(outputs[k]) => ChickenFirst(outputs[k])) =>
           /\ detectionResult' = ResNoPrediction
           /\ errorMessage' = ErrEmpty]_vars

C7_ReasonClass(status) ==
  CASE status = 401 -> "failed:401 Unauthorized"
    [] status = 403 -> "failed:403 Forbidden"
    [] status = 422 -> "failed:422 Unprocessable Entity"
    [] OTHER -> "failed:status"

HoldsBody(raw, body) ==
  \/ raw = body
  \/ body.fmt \in {"compact", "pretty"} /\ raw = [fmt |-> "pretty", data |-> body.data]

\* C8: whenever an invocation that received a response returns,
\* rawApiResponse holds that response's body, whatever the outcome.
C8_BodyRetained ==
  [][\A i \in InvIds :
       (Returns(i) /\ inv[i].response.status # 0) =>
         HoldsBody(rawApiResponse', inv[i].response.body)]_vars

\* C9: errorMessage and detectionResult are never both shown.
C9_OneMessage == ~(errorMessage # ErrEmpty /\ detectionResult # ResEmpty)

\* every invocation so far was made with an image selected (it started a read)
AllWithImage == \A i \in InvIds : inv[i].pc # "idle" => reads[i] = 1

\* C9, the guarded case: as long as no invocation overlaps another and every
\* invocation is made with an image selected (what the detect button
\* enforces), errorMessage and detectionResult are never both shown.
C9_OneMessageWithImage ==
  AllWithImage =>
    /\ ~(errorMessage # ErrEmpty /\ detectionResult # ResEmpty)
    /\ \A i \in InvIds :
         inv[i].pc \in Pending => errorMessage = ErrEmpty /\ detectionResult = ResEmpty

\* C10: an invocation issues at most one HTTP POST: none before the file is
\* encoded, none at all when no image is selected or encoding fails, and
\* exactly one, carrying the encoded image, from the moment encoding
\* succeeds on, whatever happens to the request afterwards.
C10_SinglePost ==
  /\ [](\A i \in InvIds :
          /\ Len(requests[i]) <= 1
          /\ reads[i] <= 1
          /\ inv[i].pc \in {"idle", "reading"} => requests[i] = << >>
          /\ inv[i].pc \in {"fetching", "text", "json"} =>
               requests[i] = <<[api_key |-> "ROBOTFLOW_API_KEY", type |-> "base64",
                                value |-> <<"base64", inv[i].file>>]>>)
  /\ [][\A i \in InvIds :
          /\ (Starts(i) /\ selectedImage = NoFile) => requests'[i] = << >>
          /\ (Returns(i) /\ inv[i].pc = "reading") => requests'[i] = << >>
          /\ Returns(i) => requests'[i] = requests[i]
          /\ inv[i].pc = "done" => requests'[i] = requests[i]]_vars

\* every invocation has returned with one request sent, the last of them
\* after a transport failure
C10_Witness ==
  /\ \A i \in InvIds : inv[i].pc = "done" /\ Len(requests[i]) = 1
  /\ errorMessage = ErrFetch

\* the entry {class: 'Newcastle Disease', confidence: 0.8734}
NewcastleEntry == [t |-> "object", class |-> [t |-> "string", s |-> Newcastle],
                   confidence |-> [t |-> "number", n |-> 87340]]

\* C11: a success-status response with JSON body in which some output's
\* first prediction entry is {class: 'Newcastle Disease', confidence: 0.8734}
\* ends as 'Detected: Newcastle Disease (Confidence: 87.34%)' with no error,
\* whatever the other outputs are and wherever that output sits.
C11_Newcastle ==
  [][\A i \in InvIds :
       ReturnsParsed(i) =>
         LET outputs == OutputsOf(inv[i].response.body.data) IN
         (\E k \in 1..Len(outputs) :
            HasFirstEntry(outputs[k]) /\ outputs[k].elems[1] = NewcastleEntry) =>
           /\ detectionResult' = [k |-> "detected", class |-> Newcastle,
                                  confidence |-> 8734]
           /\ errorMessage' = ErrEmpty]_vars

\* C11, alone in the response: when the Newcastle output is the only
\* element of outputs, the result is Newcastle Disease at 87.34%.
C11_NewcastleAlone ==
  [][\A i \in InvIds :
       (/\ ReturnsParsed(i)
        /\ Len(OutputsOf(inv[i].response.body.data)) = 1
        /\ HasFirstEntry(OutputsOf(inv[i].response.body.data)[1])
        /\ OutputsOf(inv[i].response.body.data)[1].elems[1] = NewcastleEntry) =>
         /\ detectionResult' = [k |-> "detected", class |-> Newcastle,
                                confidence |-> 8734]
         /\ errorMessage' = ErrEmpty]_vars

\* the outcome invocation i produces by itself when it returns from where
\* it stands: the three fields of the outcome slot as one invocation, run
\* alone from its own clearing of the slot, leaves them
OwnOutcome(i) ==
  LET response == inv[i].response
      shown(e, d, raw) ==
        [errorMessage |-> e, detectionResult |-> d, rawApiResponse |-> raw] IN
  CASE inv[i].pc = "reading" -> shown(ErrRead, ResEmpty, EmptyText)
    [] inv[i].pc = "fetching" -> shown(ErrFetch, ResEmpty, EmptyText)
    [] inv[i].pc = "text" ->
         shown(StatusError(response.status, response.body), ResEmpty,
               ErrorBodyCapture(response.body))
    [] inv[i].pc = "json" /\ ~Parses(response.body) ->
         shown(ErrParse, ResEmpty, EmptyText)
    [] OTHER ->
         LET data == JSONparse(response.body)
             found == Walk(data) IN
         CASE found.k = "found" ->
                shown(ErrEmpty, ResDetected(found.class, toFixed2(found.confidence)),
                      JSONstringify2(data))
           [] found.k = "none" ->
                shown(ErrEmpty, ResNoPrediction, JSONstringify2(data))
           [] OTHER -> shown(ErrType, ResEmpty, JSONstringify2(data))

\* the outcome slot as displayed
Displayed ==
  [errorMessage |-> errorMessage, detectionResult |-> detectionResult,
   rawApiResponse |-> rawApiResponse]

\* C12, the slot: when an invocation returns and every other invocation has
\* already run with an image and returned, the outcome displayed is that
\* last invocation's own outcome in all three fields, with nothing left over
\* from the others.
C12_SlotIsLastOutcome ==
  [][\A i \in InvIds :
       (/\ Returns(i)
        /\ \A j \in InvIds \ {i} : inv[j].pc = "done" /\ reads[j] = 1) =>
         Displayed' = OwnOutcome(i)]_vars

\* C12, the sharing: a step of one invocation changes nothing another
\* pending invocation reads or writes, the outcome slot apart: not its
\* locals, its reads or requests, and not the busy flag.
C12_NothingElseShared ==
  [][\A i, j \in InvIds :
       (i # j /\ inv'[i] # inv[i] /\ inv[j].pc \in Pending) =>
         /\ inv'[j] = inv[j]
         /\ reads'[j] = reads[j]
         /\ requests'[j] = requests[j]
         /\ isLoading' = isLoading]_vars

\* C12: when invocations of handleDetectDisease overlap, the outcome slot is
\* last-write-wins (after all have returned the displayed errorMessage,
\* detectionResult and rawApiResponse are together the outcome of the one
\* that returned last) and the invocations share no other state.
C12_LastWriteWins == C12_SlotIsLastOutcome /\ C12_NothingElseShared

\* the invocations in flight
InFlight == {i \in InvIds : inv[i].pc \in Pending}

\* C13: with the detect button enabled only while isLoading is false and an
\* image is selected, at most one invocation is in flight, isLoading is
\* true exactly while one is pending (set in the run that starts it, reset
\* in the run that ends it, whatever the outcome), and, every read and
\* request completing or failing, a busy button is always released again.
C13_BusyFlag ==
  /\ [](Cardinality(InFlight) <= 1 /\ (isLoading <=> InFlight # {}))
  /\ [][\A i \in InvIds :
          /\ Starts(i) => (isLoading' /\ inv'[i].pc = "reading")
          /\ Returns(i) =>
               /\ ~isLoading'
               /\ (errorMessage' # ErrEmpty) # (detectionResult' # ResEmpty)
               /\ DetectButtonDisabled' <=> (selectedImage' = NoFile)]_vars
  /\ (isLoading ~> ~isLoading)

\* the button was released after one invocation and has been used again
C13_Witness ==
  /\ inv[1].pc = "done"
  /\ reads[1] = 1
  /\ inv[2].pc = "fetching"
  /\ isLoading
  /\ Cardinality(InFlight) = 1

\* C14: a step of handleImageChange (every step that changes the selection
\* or the preview, and every step that advances no invocation) puts the new
\* file, or null, in selectedImage with the preview of that file, empties
\* detectionResult, rawApiResponse and errorMessage in both cases, and
\* leaves isLoading and every invocation, pending or not, as they were; what
\* it leaves depends on the new file alone.
C14_ImageChangeFrame ==
  [][(\/ selectedImage' # selectedImage
      \/ imagePreviewUrl' # imagePreviewUrl
      \/ inv' = inv) =>
       /\ selectedImage' \in Files \cup {NoFile}
       /\ imagePreviewUrl' = selectedImage'
       /\ detectionResult' = [k |-> "empty", class |-> << >>, confidence |-> 0]
       /\ rawApiResponse' = EmptyText
       /\ errorMessage'.k = "empty"
       /\ isLoading' = isLoading
       /\ inv' = inv
       /\ reads' = reads
       /\ requests' = requests]_vars

\* the selection was emptied while an invocation started on a file is
\* pending: that invocation and the busy flag are as they were, and nothing
\* of the earlier invocation's outcome is displayed
C14_Witness ==
  /\ inv[1].pc = "done"
  /\ reads[1] = 1
  /\ inv[2].pc = "fetching"
  /\ inv[2].file \in Files
  /\ selectedImage = NoFile
  /\ imagePreviewUrl = NoFile
  /\ isLoading
  /\ detectionResult = ResEmpty
  /\ rawApiResponse = EmptyText
  /\ errorMessage = ErrEmpty

\* nothing is displayed in the outcome slot
NothingDisplayed ==
  /\ detectionResult = ResEmpty
  /\ errorMessage = ErrEmpty
  /\ rawApiResponse = EmptyText

\* C15: a displayed outcome belongs to the selected image: an invocation
\* that returns after the selection was changed or emptied (its file is not
\* the selected one) writes no result, error or diagnostic body, and nothing
\* is displayed while no image is selected.
C15_OutcomeOfSelection ==
  /\ [][\A i \in InvIds :
          (Returns(i) /\ inv[i].file # selectedImage) =>
            /\ detectionResult' = detectionResult
            /\ errorMessage' = errorMessage
            /\ rawApiResponse' = rawApiResponse]_vars
  /\ [](selectedImage = NoFile => NothingDisplayed)

\* C16: whenever the webcam is switched off and no getUserMedia request is
\* pending, no live stream is attached to the video element, however the
\* calls of toggleWebcam interleave with the settling of earlier requests.
C16_StreamReleased ==
  (~webcamActive /\ mediaRequests = 0) =>
    ~(srcObject # NoStream /\ srcObject \in liveStreams)

\* C16, further: with the webcam off and no request pending, no stream
\* that getUserMedia handed out is live at all, attached or not.
C16_NoLiveStreamWhenOff ==
  (~webcamActive /\ mediaRequests = 0) => liveStreams = {}

====
